---- MODULE Spec2Model ----
(***************************************************************************)
(* A model of the Expander API example scripts (expander_api/python):      *)
(* expander_auth, list_cloud_assets, list_on_prem_assets, list_exposures   *)
(* and list_events.  One run of one script (or one direct call of one of   *)
(* its paginators, as the unit tests make) is a behaviour of Spec; the     *)
(* server's answers are chosen when the request is made.  SpecParams       *)
(* exercises the four construct_api_params functions on their own.         *)
(*                                                                         *)
(* Python values are written as follows: a str is a TLA+ string, None is   *)
(* the string None below (no str of the model equals it), a list is a      *)
(* sequence, a dict is a function on its keys, and the value of a query    *)
(* parameter is the string of its repr ("0", "False", "''", "'aws'").      *)
(***************************************************************************)
EXTENDS Integers, Sequences, FiniteSets, TLC

VARIABLES
    script,         \* which script's code runs
    entry,          \* "main": the script is run; "call": its paginator is called directly
    argv,           \* sys.argv[1:]
    today,          \* datetime.today().date(), as <<year, month, day>>
    pc,             \* position of the single thread of control
    start_date,     \* list_events.main: sys.argv[1]
    end_date,       \* list_events.main: sys.argv[2]
    input_token,    \* main: the bearer credential read from argv
    id_token,       \* the value get_expander_id_token returned
    is_printing_page_results,
    next_url,       \* paginator local
    params,         \* paginator local
    results,        \* paginator local (the accumulator)
    response,       \* paginator local: the envelope being processed
    return_value,   \* what the paginator returned (meaningful when pc = "DONE")
    output,         \* standard output, one entry per print / pprint call
    exit_msg,       \* the argument of sys.exit, None while none was made
    uncaught,       \* the type of an exception nothing catches, None while none
    requests,       \* history: every requests.get call, in order
    served,         \* history: every page envelope the server delivered, in order
    auth_response,  \* history: the JSON body the token endpoint answered with
    trace,          \* history: the functions main called, in order
    raised,         \* history: str() of the RequestException requests.get raised, None while none
    kwargs,         \* SpecParams: the keyword arguments of construct_api_params
    built           \* SpecParams: the mapping construct_api_params returned

vars == <<script, entry, argv, today, pc, start_date, end_date, input_token,
          id_token, is_printing_page_results, next_url, params, results,
          response, return_value, output, exit_msg, uncaught, requests,
          served, auth_response, trace, raised, kwargs, built>>

None == "None"

(***************************************************************************)
(* Bounds of the model.                                                    *)
(***************************************************************************)
MaxPages == 3       \* the server's chain of next pointers has at most this many pages
MaxPageLen == 1     \* records per page
MaxSupplied == 2    \* keyword arguments supplied to construct_api_params

(***************************************************************************)
(* Module constants of the scripts.                                        *)
(***************************************************************************)
BASE_URL == "http://expander.expanse.co"
ID_TOKEN_URL == BASE_URL \o "/api/v1/idtoken"
CLOUD_ASSETS_URL == BASE_URL \o "/api/v1/assets/cloud/ips"
ASSETS_URL == BASE_URL \o "/api/v2/ip-range"
EXPOSURES_URL == "http://expander.expanse.co/api/v2/exposures/ip-ports"
EVENTS_URL == BASE_URL \o "/api/v1/events"

ListingScripts == {"list_cloud_assets", "list_on_prem_assets", "list_exposures", "list_events"}
Scripts == ListingScripts \cup {"expander_auth"}

(***************************************************************************)
(* Query Builder: construct_api_params.  Each table lists, in the order of *)
(* the function's tokens dict, the keyword argument and the server-side    *)
(* key it is stored under.                                                 *)
(***************************************************************************)
CloudAssetsTokens ==
    << <<"tenancy_type", "filter[tenancy-type]">>,
       <<"account_integration", "filter[account-integration]">>,
       <<"region", "filter[region]">>,
       <<"provider", "filter[provider]">>,
       <<"business_unit", "filter[business-unit]">>,
       <<"business_unit_name", "filter[business-unit-name]">>,
       <<"domain", "filter[domain]">>,
       <<"domain_search", "filter[domain-search]">>,
       <<"origin", "filter[origin]">>,
       <<"inet", "filter[inet]">>,
       <<"limit", "page[limit]">>,
       <<"offset", "page[offset]">>,
       <<"sort", "sort">> >>

OnPremAssetsTokens ==
    << <<"limit", "limit">>,
       <<"offset", "offset">>,
       <<"sort", "sort">>,
       <<"business_units", "business-units">>,
       <<"business_unit_names", "business-unit-names">>,
       <<"inet", "inet">>,
       <<"tags", "tags">>,
       <<"tag_names", "tag-names">>,
       <<"include", "include">> >>

ExposuresTokens ==
    << <<"accept", "Accept">>,
       <<"limit", "limit">>,
       <<"offset", "offset">>,
       <<"exposure_type", "exposureType">>,
       <<"inet", "inet">>,
       <<"content", "content">>,
       <<"activity_status", "activityStatus">>,
       <<"last_event_time", "lastEventTime">>,
       <<"last_event_window", "lastEventWindow">>,
       <<"severity", "severity">>,
       <<"event_type", "eventType">>,
       <<"provider", "provider">>,
       <<"cloud", "cloud">>,
       <<"tag", "tag">>,
       <<"business_unit", "businessUnit">>,
       <<"port_number", "portNumber">>,
       <<"sort", "sort">> >>

EventsTokens ==
    << <<"business_unit", "businessUnit">>,
       <<"event_type", "eventType">>,
       <<"limit", "limit">>,
       <<"page_token", "pageToken">> >>

TokenTable(s) ==
    CASE s = "list_cloud_assets" -> CloudAssetsTokens
      [] s = "list_on_prem_assets" -> OnPremAssetsTokens
      [] s = "list_exposures" -> ExposuresTokens
      [] s = "list_events" -> EventsTokens

\* The keyword arguments of script s's construct_api_params.
Fields(s) == {TokenTable(s)[i][1] : i \in 1..Len(TokenTable(s))}

\* Every parameter defaults to None.
NoKwargs(s) == [f \in Fields(s) |-> None]

\* dict.update({k: v})
DictUpdate(d, k, v) == [x \in (DOMAIN d) \cup {k} |-> IF x = k THEN v ELSE d[x]]

EmptyDict == << >>

\* "if token_value is not None"
KeepsAll(token_value) == TRUE
KeepsOnlyTruthy(token_value) == token_value \notin {None, "0", "''", "False"}
KeepsUnlessFalse(token_value) == token_value # None /\ token_value # "False"
Keeps(token_value) == token_value # None

\* The loop over tokens.items(): entries i..Len(table) applied to params.
RECURSIVE UpdateFrom(_, _, _, _)
UpdateFrom(table, kw, i, prms) ==
    IF i > Len(table) THEN prms
    ELSE UpdateFrom(table, kw, i + 1,
                    IF Keeps(kw[table[i][1]])
                    THEN DictUpdate(prms, table[i][2], kw[table[i][1]])
                    ELSE prms)

construct_api_params(s, kw) == UpdateFrom(TokenTable(s), kw, 1, EmptyDict)

(***************************************************************************)
(* Dates.  A date argument is text; datetime.strptime(text, '%Y-%m-%d')    *)
(* splits it into its year, month and day fields, rejects text that does   *)
(* not match the format or names no calendar day (ValueError), and yields  *)
(* a datetime, compared by its proleptic Gregorian ordinal.                *)
(***************************************************************************)
DateTexts == {"2020-02-28", "2020-02-29", "2020-03-01", "2020-3-1", "2021-02-29", "yesterday"}

\* The fields the format's directives match in the text; << >> when it does not match.
DateFields(text) ==
    CASE text = "2020-02-28" -> <<2020, 2, 28>>
      [] text = "2020-02-29" -> <<2020, 2, 29>>
      [] text = "2020-03-01" -> <<2020, 3, 1>>
      [] text = "2020-3-1" -> <<2020, 3, 1>>
      [] text = "2021-02-29" -> <<2021, 2, 29>>
      [] OTHER -> << >>

IsLeap(y) == (y % 4 = 0 /\ y % 100 # 0) \/ y % 400 = 0

DaysInMonth(y, m) ==
    CASE m \in {1, 3, 5, 7, 8, 10, 12} -> 31
      [] m \in {4, 6, 9, 11} -> 30
      [] m = 2 -> IF IsLeap(y) THEN 29 ELSE 28

RECURSIVE DaysBeforeMonth(_, _)
DaysBeforeMonth(y, m) == IF m = 1 THEN 0 ELSE DaysBeforeMonth(y, m - 1) + DaysInMonth(y, m - 1)

\* date.toordinal(): 0001-01-01 is day 1.
ToOrdinal(ymd) ==
    LET y == ymd[1] - 1
    IN  365 * y + (y \div 4) - (y \div 100) + (y \div 400)
        + DaysBeforeMonth(ymd[1], ymd[2]) + ymd[3]

IsCalendarDay(ymd) ==
    /\ Len(ymd) = 3
    /\ ymd[2] \in 1..12
    /\ ymd[3] \in 1..DaysInMonth(ymd[1], ymd[2])

\* datetime.strptime(text, date_format): raises ValueError or returns a datetime at 00:00.
strptime(text) ==
    IF IsCalendarDay(DateFields(text))
    THEN [raises |-> None, ordinal |-> ToOrdinal(DateFields(text))]
    ELSE [raises |-> "ValueError", ordinal |-> 0]

\* The dates the process may observe as datetime.today().date().
Todays == {<<2020, 2, 29>>, <<2020, 3, 1>>}

END_BEFORE_START_MSG == "end_date must be the same as or later than start_date"
END_IS_TODAY_MSG == "end_date must be earlier than today"

\* "datetime.strptime(end, date_format) < datetime.strptime(start, date_format)"
EndAfterStart(e, s) == e > s
EndNotAfterStart(e, s) == e <= s
EndBeforeStart(e, s) == e < s

\* "datetime.strptime(end, date_format).date() == datetime.today().date()"
EndNeverToday(e, t) == FALSE
EndIsToday(e, t) == e = t

\* check_date_params(start, end) on a day whose date is now: what the call does.
\* raises: the exception it lets escape; exit: the message it hands to sys.exit;
\* both None when it returns.
check_date_params(start, end, now) ==
    IF strptime(end).raises # None \/ strptime(start).raises # None
    THEN [raises |-> "ValueError", exit |-> None]
    ELSE IF EndBeforeStart(strptime(end).ordinal, strptime(start).ordinal)
    THEN [raises |-> None, exit |-> END_BEFORE_START_MSG]
    ELSE IF EndIsToday(strptime(end).ordinal, ToOrdinal(now))
    THEN [raises |-> None, exit |-> END_IS_TODAY_MSG]
    ELSE [raises |-> None, exit |-> None]

(***************************************************************************)
(* The server and the transport, as the scripts see them.                  *)
(***************************************************************************)
Credentials == {"bearer1"}
Tokens == {"jwt1", "jwt2"}
ErrorTexts == {"Could not get an id token"}
\* str() of the requests.exceptions.RequestException a call may raise.
ExceptionTexts == {"Connection refused", "Read timed out"}
\* str() of the MissingSchema requests.get raises for a URL without a scheme.
MISSING_SCHEMA_TEXT == "Invalid URL '': No scheme supplied"
Records == {"a", "b"}
NextUrls == {"https://expander.expanse.co/next"}
TotalCounts == {2}

RECURSIVE SeqsUpTo(_, _)
SeqsUpTo(S, n) ==
    IF n = 0 THEN {<< >>}
    ELSE SeqsUpTo(S, n - 1) \cup {Append(q, x) : q \in {r \in SeqsUpTo(S, n - 1) : Len(r) = n - 1}, x \in S}

\* JSON bodies of the token endpoint: any of the keys error and token may be present.
AuthBodies ==
    {EmptyDict}
    \cup {[error |-> e] : e \in ErrorTexts}
    \cup {[token |-> t] : t \in Tokens}
    \cup {[error |-> e, token |-> t] : e \in ErrorTexts, t \in Tokens}

\* The meta member of an envelope: the events endpoint sends none, the other
\* endpoints send the total count or leave meta out.
MetaParts(s) ==
    {EmptyDict} \cup (IF s = "list_events" THEN {}
                      ELSE {[meta |-> [totalCount |-> c]] : c \in TotalCounts})

\* Envelopes that lack a member the paginators read: pagination, its next, or data.
MalformedBodies(s) ==
    LET datas == SeqsUpTo(Records, MaxPageLen)
        full == CHOOSE m \in MetaParts(s) : \A o \in MetaParts(s) : Cardinality(DOMAIN o) <= Cardinality(DOMAIN m)
    IN  {[data |-> d] @@ full : d \in datas}
        \cup {[data |-> d, pagination |-> [prev |-> None]] @@ full : d \in datas}
        \cup {[pagination |-> [next |-> None, prev |-> None]] @@ full}

\* JSON bodies of a resource endpoint.  canFollow: the chain of next pointers may go on.
PageBodies(s, canFollow) ==
    LET nexts == {None, ""} \cup (IF canFollow THEN NextUrls ELSE {})
        datas == SeqsUpTo(Records, MaxPageLen)
    IN  {[data |-> d, pagination |-> [next |-> n, prev |-> None]] @@ m :
            d \in datas, n \in nexts, m \in MetaParts(s)}
        \cup MalformedBodies(s)

HasKey(d, k) == k \in DOMAIN d

(***************************************************************************)
(* Requests.  timeout is << >> for a call made without one.                *)
(***************************************************************************)
AUTH_TIMEOUT == 10

BearerHeader(bearer_token) == "Bearer " \o bearer_token

JwtHeaderAsBearer(token) == "Bearer " \o token
JwtHeader(token) == "JWT " \o token

AuthRequest(bearer_token) ==
    [url |-> ID_TOKEN_URL,
     headers |-> ("Authorization" :> BearerHeader(bearer_token))
                 @@ ("Content-Type" :> "application/json"),
     params |-> EmptyDict,
     timeout |-> <<AUTH_TIMEOUT>>]

PageRequestAddsToNext(url, token, prms) ==
    [url |-> url,
     headers |-> ("Authorization" :> JwtHeader(token)),
     params |-> IF url \in NextUrls THEN DictUpdate(prms, "pageToken", "'1'") ELSE prms,
     timeout |-> << >>]

PageRequest(url, token, prms) ==
    [url |-> url,
     headers |-> ("Authorization" :> JwtHeader(token)),
     params |-> prms,
     timeout |-> << >>]

(***************************************************************************)
(* Messages and output lines.                                              *)
(***************************************************************************)
CALLING_IDTOKEN_LINE == "Calling /api/v1/idtoken endpoint..."
AUTHENTICATED_LINE == "Successfully Authenticated"
LOADING_NEXT_LINE == "Loading next page..."

ApiErrorMessageBare(error) == "API returned an error"
ApiErrorMessage(error) == "API returned an error: " \o error

ExceptionMessageBare(text) == "Request returned an exception: "
ExceptionMessage(text) == "Request returned an exception: " \o text

ArgsMessage(found) == "Three args required; found " \o ToString(found)

(***************************************************************************)
(* What differs between the four paginators.                               *)
(***************************************************************************)
Paginator(s) ==
    CASE s = "list_cloud_assets" -> "get_cloud_assets"
      [] s = "list_on_prem_assets" -> "get_assets"
      [] s = "list_exposures" -> "get_exposures"
      [] s = "list_events" -> "get_events"

FirstUrl(s, start, end) ==
    CASE s = "list_cloud_assets" -> CLOUD_ASSETS_URL
      [] s = "list_on_prem_assets" -> ASSETS_URL
      [] s = "list_exposures" -> EXPOSURES_URL
      [] s = "list_events" -> EVENTS_URL \o "?startDateUtc=" \o start \o "&endDateUtc=" \o end

CallingLine(s) ==
    CASE s = "list_cloud_assets" -> "Calling " \o CLOUD_ASSETS_URL \o " endpoint..."
      [] s = "list_on_prem_assets" -> "Calling " \o ASSETS_URL \o " endpoint..."
      [] s = "list_exposures" -> "Calling v2/exposures/ip-ports endpoint..."
      [] s = "list_events" -> "Calling " \o EVENTS_URL \o " endpoint..."

\* The paginator reads response['meta']['totalCount'].
ReadsTotalCount(s) == s # "list_events"

\* get_assets prints the whole response first.
PrintsResponse(s) == s = "list_on_prem_assets"

ProgressLine(s, on_page, so_far, total_count) ==
    CASE s = "list_cloud_assets" ->
            "Retrieved " \o ToString(on_page) \o " Cloud Assets on this page, total so far: "
            \o ToString(so_far) \o " out of " \o ToString(total_count)
      [] s = "list_on_prem_assets" ->
            "Retrieved " \o ToString(on_page) \o " Assets on this page, total so far: "
            \o ToString(so_far) \o " out of " \o ToString(total_count)
      [] s = "list_exposures" ->
            "Retrieved " \o ToString(on_page) \o " Exposures on this page, total so far: "
            \o ToString(so_far) \o " out of " \o ToString(total_count)
      [] s = "list_events" ->
            "Retrieved " \o ToString(on_page) \o " Events on this page, total so far: "
            \o ToString(so_far)

CompletedLineOffByOne(s, n) ==
    "Process has completed: " \o ToString(n + 1) \o " Total "
    \o (CASE s \in {"list_cloud_assets", "list_on_prem_assets"} -> "Assets"
          [] s = "list_exposures" -> "Exposures"
          [] s = "list_events" -> "Events")
    \o " have been loaded"

CompletedLine(s, n) ==
    CASE s \in {"list_cloud_assets", "list_on_prem_assets"} ->
            "Process has completed: " \o ToString(n) \o " Total Assets have been loaded"
      [] s = "list_exposures" ->
            "Process has completed: " \o ToString(n) \o " Total Exposures have been loaded"
      [] s = "list_events" ->
            "Process has completed: " \o ToString(n) \o " Total Events have been loaded"

\* print(x) and pprint.pprint(x) of a list or dict write its repr.
Repr(x) == ToString(x)

\* "if next_url:"
Truthy(url) == url # None /\ url # ""

\* "while next_url is not None"
LoopStopsAfterTwo(url) == url # None /\ Len(served) < 2
LoopContinues(url) == url # None

\* "results = results + page_results"
AccumulatePrepend(acc, page_results) == page_results \o acc
AccumulateReplace(acc, page_results) == page_results
Accumulated(acc, page_results) == acc \o page_results

(***************************************************************************)
(* Initial states.                                                         *)
(***************************************************************************)
\* The command lines: the events script reads three arguments, the others one.
ArgvChoices(s) ==
    IF s = "list_events"
    THEN {<< >>}
         \cup {<<a>> : a \in DateTexts}
         \cup {<<a, b>> : a \in DateTexts, b \in DateTexts}
         \cup {<<a, b, c>> : a \in DateTexts, b \in DateTexts, c \in Credentials}
    ELSE {<< >>} \cup {<<c>> : c \in Credentials}

Idle ==
    /\ input_token = None
    /\ next_url = None /\ params = EmptyDict /\ results = << >>
    /\ response = EmptyDict /\ return_value = << >>
    /\ output = << >> /\ exit_msg = None /\ uncaught = None
    /\ requests = << >> /\ served = << >> /\ auth_response = EmptyDict
    /\ trace = << >> /\ raised = None

\* python <script>.py args...: main() runs, and passes True for is_printing_page_results.
InitMain ==
    /\ entry = "main"
    /\ script \in Scripts
    /\ argv \in ArgvChoices(script)
    /\ today \in (IF script = "list_events" THEN Todays ELSE {<<2020, 3, 1>>})
    /\ pc = "main"
    /\ id_token = None
    /\ is_printing_page_results = TRUE
    /\ start_date = None /\ end_date = None
    /\ Idle

\* A direct call of the paginator with a token in hand, as the unit tests make.
InitCall ==
    /\ entry = "call"
    /\ script \in ListingScripts
    /\ argv = << >>
    /\ today = <<2020, 3, 1>>
    /\ pc = "INIT"
    /\ id_token = "jwt1"
    /\ is_printing_page_results \in BOOLEAN
    /\ start_date = (IF script = "list_events" THEN "2020-02-28" ELSE None)
    /\ end_date = (IF script = "list_events" THEN "2020-02-29" ELSE None)
    /\ Idle

Init ==
    /\ InitMain \/ InitCall
    /\ kwargs = EmptyDict
    /\ built = EmptyDict

(***************************************************************************)
(* How a run ends other than by returning.                                 *)
(***************************************************************************)
\* sys.exit(message): SystemExit reaches the top level, the process ends.
SysExitGoesOn(message) ==
    /\ exit_msg' = message
    /\ pc' = pc
    /\ uncaught' = uncaught

SysExit(message) ==
    /\ exit_msg' = message
    /\ pc' = "FAILED"
    /\ uncaught' = uncaught

\* An exception no handler of the scripts catches: traceback, the process ends.
Uncaught(type) ==
    /\ uncaught' = type
    /\ pc' = "CRASHED"
    /\ exit_msg' = exit_msg

Goto(label) ==
    /\ pc' = label
    /\ exit_msg' = exit_msg
    /\ uncaught' = uncaught

(***************************************************************************)
(* main(): reading sys.argv.                                               *)
(***************************************************************************)
\* The pc the argument reads of main lead to when they succeed.
AfterArgsSkipsDates(s) == "auth"
AfterArgs(s) == IF s = "list_events" THEN "check_dates" ELSE "auth"

ParseArgs ==
    /\ pc = "main"
    /\ trace' = Append(trace, "args")
    /\ UNCHANGED <<raised, script, entry, argv, today, id_token, is_printing_page_results,
                   next_url, params, results, response, return_value, output,
                   requests, served, auth_response, kwargs, built>>
    /\ CASE script \in {"expander_auth", "list_exposures"} ->
              \* input_token = sys.argv[1]
              IF Len(argv) > 0
              THEN /\ input_token' = argv[1]
                   /\ Goto(AfterArgs(script))
                   /\ UNCHANGED <<start_date, end_date>>
              ELSE /\ Uncaught("IndexError")
                   /\ UNCHANGED <<start_date, end_date, input_token>>
         [] script \in {"list_cloud_assets", "list_on_prem_assets"} ->
              IF Len(argv) > 0
              THEN /\ input_token' = argv[1]
                   /\ Goto(AfterArgs(script))
                   /\ UNCHANGED <<start_date, end_date>>
              ELSE /\ SysExit(ArgsMessage(0))
                   /\ UNCHANGED <<start_date, end_date, input_token>>
         [] script = "list_events" ->
              IF Len(argv) = 0
              THEN /\ SysExit(ArgsMessage(0))
                   /\ UNCHANGED <<start_date, end_date, input_token>>
              ELSE IF Len(argv) = 1
              THEN /\ SysExit(ArgsMessage(1))
                   /\ start_date' = argv[1]
                   /\ UNCHANGED <<end_date, input_token>>
              ELSE IF Len(argv) = 2
              THEN /\ SysExit(ArgsMessage(2))
                   /\ start_date' = argv[1]
                   /\ end_date' = argv[2]
                   /\ UNCHANGED input_token
              ELSE /\ start_date' = argv[1]
                   /\ end_date' = argv[2]
                   /\ input_token' = argv[3]
                   /\ Goto(AfterArgs(script))

(***************************************************************************)
(* list_events.main: check_date_params(start_date, end_date).              *)
(***************************************************************************)
CheckDateParams ==
    /\ pc = "check_dates"
    /\ trace' = Append(trace, "check_date_params")
    /\ LET r == check_date_params(start_date, end_date, today)
       IN  IF r.raises # None THEN Uncaught(r.raises)
           ELSE IF r.exit # None THEN SysExit(r.exit)
           ELSE Goto("auth")
    /\ UNCHANGED <<raised, script, entry, argv, today, start_date, end_date, input_token,
                   id_token, is_printing_page_results, next_url, params, results,
                   response, return_value, output, requests, served,
                   auth_response, kwargs, built>>

(***************************************************************************)
(* get_expander_id_token(bearer_token): one call to the token endpoint.    *)
(***************************************************************************)
\* Where main goes once it holds the token.
AfterAuth(s) == IF s = "expander_auth" THEN "print_token" ELSE "INIT"

\* "return auth_response['token']"
TokenOfFixed(body) == "jwt1"
TokenOf(body) == body["token"]

\* "if 'error' in auth_response"
HasErrorUnlessToken(body) == HasKey(body, "error") /\ ~HasKey(body, "token")
HasError(body) == HasKey(body, "error")

Authenticate ==
    /\ pc = "auth"
    /\ trace' = Append(trace, "get_expander_id_token")
    /\ requests' = Append(requests, AuthRequest(input_token))
    /\ \/ \E text \in ExceptionTexts :
            \* requests.get(...) raises a RequestException
            /\ output' = Append(output, CALLING_IDTOKEN_LINE)
            /\ raised' = text
            /\ SysExit(ExceptionMessage(text))
            /\ UNCHANGED <<id_token, auth_response>>
       \/ \E body \in AuthBodies :
            /\ auth_response' = body
            /\ raised' = raised
            /\ IF HasError(body)
               THEN /\ output' = Append(output, CALLING_IDTOKEN_LINE)
                    /\ SysExit(ApiErrorMessage(body["error"]))
                    /\ UNCHANGED id_token
               ELSE IF HasKey(body, "token")
               THEN /\ output' = output \o <<CALLING_IDTOKEN_LINE, AUTHENTICATED_LINE>>
                    /\ id_token' = TokenOf(body)
                    /\ Goto(AfterAuth(script))
               ELSE \* auth_response['token'] raises KeyError
                    /\ output' = output \o <<CALLING_IDTOKEN_LINE, AUTHENTICATED_LINE>>
                    /\ Uncaught("KeyError")
                    /\ UNCHANGED id_token
    /\ UNCHANGED <<script, entry, argv, today, start_date, end_date, input_token,
                   is_printing_page_results, next_url, params, results, response,
                   return_value, served, kwargs, built>>

\* expander_auth.main: print(id_token)
PrintIdToken ==
    /\ pc = "print_token"
    /\ output' = Append(output, id_token)
    /\ Goto("DONE")
    /\ UNCHANGED <<raised, script, entry, argv, today, start_date, end_date, input_token,
                   id_token, is_printing_page_results, next_url, params, results,
                   response, return_value, requests, served, auth_response,
                   trace, kwargs, built>>

(***************************************************************************)
(* The paginators: get_cloud_assets, get_assets, get_exposures, get_events.*)
(***************************************************************************)
\* Up to the loop: next_url, params, the 'Calling ...' line, results = [].
StartPagination ==
    /\ pc = "INIT"
    /\ trace' = Append(trace, Paginator(script))
    /\ next_url' = FirstUrl(script, start_date, end_date)
    /\ params' = construct_api_params(script, NoKwargs(script))
    /\ output' = Append(output, CallingLine(script))
    /\ results' = << >>
    /\ Goto("FETCHING")
    /\ UNCHANGED <<raised, script, entry, argv, today, start_date, end_date, input_token,
                   id_token, is_printing_page_results, response, return_value,
                   requests, served, auth_response, kwargs, built>>

\* A page request that keeps the loop's results in spite of the exception.
FailPageReturnsPartial(text) ==
    /\ raised' = text
    /\ exit_msg' = ExceptionMessage(text)
    /\ uncaught' = uncaught
    /\ pc' = "DONE"
    /\ return_value' = results
    /\ output' = Append(output, CompletedLine(script, Len(results)))
    /\ UNCHANGED <<response, served>>

\* "except requests.exceptions.RequestException as request_exception: sys.exit(...)"
FailPage(text) ==
    /\ raised' = text
    /\ SysExit(ExceptionMessage(text))
    /\ UNCHANGED <<response, served, return_value, output>>

\* One requests.get(next_url, headers=..., params=params).json() of the loop.
FetchPage ==
    /\ pc = "FETCHING"
    /\ LoopContinues(next_url)
    /\ requests' = Append(requests, PageRequest(next_url, id_token, params))
    /\ IF next_url = ""
       THEN \* requests refuses a URL without a scheme: MissingSchema
            FailPage(MISSING_SCHEMA_TEXT)
       ELSE \/ \E text \in ExceptionTexts : FailPage(text)
            \/ \E body \in PageBodies(script, Len(served) + 1 < MaxPages) :
                 /\ response' = body
                 /\ served' = Append(served, body)
                 /\ raised' = raised
                 /\ Goto("ACCUMULATING")
                 /\ UNCHANGED <<return_value, output>>
    /\ UNCHANGED <<script, entry, argv, today, start_date, end_date, input_token,
                   id_token, is_printing_page_results, next_url, params, results,
                   auth_response, trace, kwargs, built>>

\* The rest of the loop body and, when the loop ends, the code after it.
AccumulatePage ==
    /\ pc = "ACCUMULATING"
    /\ LET out0 == IF PrintsResponse(script) THEN Append(output, Repr(response)) ELSE output
           hasNext == HasKey(response, "pagination") /\ HasKey(response["pagination"], "next")
           hasData == HasKey(response, "data")
           hasMeta == HasKey(response, "meta") /\ HasKey(response["meta"], "totalCount")
           page_results == response["data"]
           all == Accumulated(results, page_results)
           nxt == response["pagination"]["next"]
           out1 == IF is_printing_page_results THEN Append(out0, Repr(page_results)) ELSE out0
           total_count == IF ReadsTotalCount(script) THEN response["meta"]["totalCount"] ELSE 0
           out2 == Append(out1, ProgressLine(script, Len(page_results), Len(all), total_count))
           out3 == IF Truthy(nxt) THEN Append(out2, LOADING_NEXT_LINE) ELSE out2
           out4 == IF ~is_printing_page_results THEN Append(out3, Repr(all)) ELSE out3
       IN  /\ next_url' = IF hasNext THEN nxt ELSE next_url
           /\ IF ~hasNext \/ ~hasData \/ (ReadsTotalCount(script) /\ ~hasMeta)
              THEN \* response['pagination']['next'], response['data'] or
                   \* response['meta']['totalCount'] raises KeyError
                   /\ Uncaught("KeyError")
                   /\ output' = out0
                   /\ UNCHANGED <<results, return_value>>
              ELSE IF LoopContinues(nxt)
              THEN /\ results' = all
                   /\ output' = out3
                   /\ Goto("FETCHING")
                   /\ UNCHANGED return_value
              ELSE /\ results' = all
                   /\ output' = Append(out4, CompletedLine(script, Len(all)))
                   /\ return_value' = all
                   /\ Goto("DONE")
    /\ UNCHANGED <<raised, script, entry, argv, today, start_date, end_date, input_token,
                   id_token, is_printing_page_results, params, response, requests,
                   served, auth_response, trace, kwargs, built>>

Next ==
    \/ ParseArgs
    \/ CheckDateParams
    \/ Authenticate
    \/ PrintIdToken
    \/ StartPagination
    \/ FetchPage
    \/ AccumulatePage

Spec == Init /\ [][Next]_vars

(***************************************************************************)
(* construct_api_params on its own: the keyword arguments are drawn in the *)
(* initial state, the call builds the mapping.                             *)
(***************************************************************************)
PyValues == {"0", "''", "False", "'aws'"}

RECURSIVE SubsetsUpTo(_, _)
\* The subsets of S with at most n elements.
SubsetsUpTo(S, n) ==
    IF n = 0 THEN {{}}
    ELSE SubsetsUpTo(S, n - 1) \cup {T \cup {x} : T \in SubsetsUpTo(S, n - 1), x \in S}

\* At most MaxSupplied arguments supplied, or all of them with one value.
KwargsChoice(s, kw) ==
    \/ \E v \in PyValues : kw = [f \in Fields(s) |-> v]
    \/ \E S \in SubsetsUpTo(Fields(s), MaxSupplied) : \E a \in [S -> PyValues] :
          kw = [f \in Fields(s) |-> IF f \in S THEN a[f] ELSE None]

InitParams ==
    /\ entry = "call"
    /\ script \in ListingScripts
    /\ KwargsChoice(script, kwargs)
    /\ built = EmptyDict
    /\ pc = "construct"
    /\ argv = << >>
    /\ today = <<2020, 3, 1>>
    /\ id_token = None
    /\ is_printing_page_results = FALSE
    /\ start_date = None /\ end_date = None
    /\ Idle

ConstructParams ==
    /\ pc = "construct"
    /\ built' = construct_api_params(script, kwargs)
    /\ Goto("constructed")
    /\ UNCHANGED <<raised, script, entry, argv, today, start_date, end_date, input_token,
                   id_token, is_printing_page_results, next_url, params, results,
                   response, return_value, output, requests, served,
                   auth_response, trace, kwargs>>

NextParams == ConstructParams

SpecParams == InitParams /\ [][NextParams]_vars

(***************************************************************************)
(* Properties.                                                             *)
(***************************************************************************)
RECURSIVE ConcatData(_)
\* p1.data ++ p2.data ++ ... ++ pn.data
ConcatData(pages) ==
    IF Len(pages) = 0 THEN << >>
    ELSE ConcatData(SubSeq(pages, 1, Len(pages) - 1)) \o pages[Len(pages)]["data"]

NextOf(page) == page["pagination"]["next"]

\* The envelope carries everything the script's paginator reads.
WellFormed(s, page) ==
    /\ HasKey(page, "data")
    /\ HasKey(page, "pagination") /\ HasKey(page["pagination"], "next")
    /\ ReadsTotalCount(s) => HasKey(page, "meta")

\* C1: when the server has delivered pages p1..pn, the last one with next = null,
\* the paginator returns p1.data ++ ... ++ pn.data: every record, in the order
\* delivered, as often as delivered.  It returns once the page with next = null
\* is processed, and everything it returns was delivered that way.
C1_ReturnsConcatenation ==
    /\ pc = "DONE" /\ script \in ListingScripts =>
          /\ return_value = ConcatData(served)
          /\ Len(served) >= 1
          /\ NextOf(served[Len(served)]) = None
          /\ \A k \in 1..(Len(served) - 1) : NextOf(served[k]) \in NextUrls
    /\ ( /\ Len(served) >= 1
         /\ \A k \in 1..Len(served) : WellFormed(script, served[k])
         /\ NextOf(served[Len(served)]) = None
         /\ pc # "ACCUMULATING" ) => pc = "DONE"

\* A two-page run whose pages hold the same record: it is returned twice.
C1_Witness ==
    /\ pc = "DONE"
    /\ Len(served) = 2
    /\ served[1]["data"] = <<"a">>
    /\ served[2]["data"] = <<"a">>
    /\ return_value = <<"a", "a">>

\* The server-side key of keyword argument f in script s's table.
KeyOf(s, f) == TokenTable(s)[CHOOSE i \in 1..Len(TokenTable(s)) : TokenTable(s)[i][1] = f][2]

Supplied(s, kw) == {f \in Fields(s) : kw[f] # None}

\* C2: the mapping construct_api_params returns has exactly one key per keyword
\* argument that is not None, the argument's server-side name, holding the
\* supplied value unchanged, and no other key.
C2_ExactlySuppliedKeys ==
    pc = "constructed" =>
       /\ DOMAIN built = {KeyOf(script, f) : f \in Supplied(script, kwargs)}
       /\ Cardinality(DOMAIN built) = Cardinality(Supplied(script, kwargs))
       /\ \A f \in Supplied(script, kwargs) : built[KeyOf(script, f)] = kwargs[f]
       /\ script = "list_cloud_assets" =>
             /\ kwargs["domain"] # None <=> HasKey(built, "filter[domain]")
             /\ kwargs["origin"] # None <=> HasKey(built, "filter[origin]")
             /\ kwargs["limit"] # None <=> HasKey(built, "page[limit]")
       /\ script = "list_on_prem_assets" =>
             (kwargs["business_units"] # None <=> HasKey(built, "business-units"))
       /\ script = "list_exposures" =>
             (kwargs["exposure_type"] # None <=> HasKey(built, "exposureType"))
       /\ script = "list_events" =>
             (kwargs["page_token"] # None <=> HasKey(built, "pageToken"))

\* Only domain and origin supplied: a two-key mapping.
C2_Witness ==
    /\ pc = "constructed"
    /\ script = "list_cloud_assets"
    /\ Supplied(script, kwargs) = {"domain", "origin"}
    /\ kwargs["domain"] = "'aws'"
    /\ kwargs["origin"] = "0"
    /\ DOMAIN built = {"filter[domain]", "filter[origin]"}
    /\ built["filter[origin]"] = "0"

\* C3: called with no argument, construct_api_params returns the empty mapping.
C3_NoArgumentsEmptyMapping ==
    (pc = "constructed" /\ Supplied(script, kwargs) = {}) => DOMAIN built = {}

C3_Witness ==
    /\ pc = "constructed"
    /\ script = "list_events"
    /\ kwargs = NoKwargs("list_events")
    /\ built = EmptyDict

\* C4: an authentication response with an error field ends the process with
\* 'API returned an error: <error text>', no token is returned and no request
\* follows the one to the token endpoint.
C4_AuthErrorExits ==
    HasKey(auth_response, "error") =>
       /\ pc = "FAILED"
       /\ exit_msg = "API returned an error: " \o auth_response["error"]
       /\ uncaught = None
       /\ id_token = None
       /\ Len(requests) = 1
       /\ requests[1]["url"] = ID_TOKEN_URL

C4_Witness ==
    /\ DOMAIN auth_response = {"error"}
    /\ script = "list_cloud_assets"
    /\ exit_msg = "API returned an error: Could not get an id token"

TokenRequests == {i \in 1..Len(requests) : requests[i]["url"] = ID_TOKEN_URL}

\* C5: an authentication response without an error field (and with its token
\* field): get_expander_id_token returns the token field verbatim, after exactly
\* one GET to the token endpoint with 'Authorization: Bearer <credential>', and
\* writes exactly the lines 'Calling /api/v1/idtoken endpoint...' and
\* 'Successfully Authenticated'.
C5_AuthSuccessReturnsToken ==
    (HasKey(auth_response, "token") /\ ~HasKey(auth_response, "error")) =>
       /\ id_token = auth_response["token"]
       /\ TokenRequests = {1}
       /\ requests[1]["headers"]["Authorization"] = "Bearer " \o input_token
       /\ SubSeq(output, 1, 2) = <<"Calling /api/v1/idtoken endpoint...", "Successfully Authenticated">>
       /\ pc \in {"INIT", "print_token"} => Len(output) = 2

C5_Witness ==
    /\ auth_response = [token |-> "jwt2"]
    /\ id_token = "jwt2"
    /\ pc = "INIT"
    /\ Len(requests) = 1

DatesChecked == script = "list_events" /\ entry = "main" /\ Len(trace) >= 2

\* strptime of every date text an argument can be, and check_date_params of
\* every pair of them on every day, tabulated once.
Parsed == [text \in DateTexts |-> strptime(text)]
Verdict == [s \in DateTexts, e \in DateTexts, t \in Todays |-> check_date_params(s, e, t)]

IsDate(text) == Parsed[text].raises = None
StartOrd == Parsed[start_date].ordinal
EndOrd == Parsed[end_date].ordinal
TodayOrd == ToOrdinal(today)

\* C7 as stated: end_date equal to today's date, whatever start_date is, exits
\* with 'end_date must be earlier than today' and never authenticates.
C7_AsStated ==
    (DatesChecked /\ IsDate(end_date) /\ EndOrd = TodayOrd) =>
       /\ exit_msg = "end_date must be earlier than today"
       /\ requests = << >>

\* C7, amended: with end_date equal to today's date authentication is never
\* attempted; the exit message is 'end_date must be earlier than today' when
\* start_date is a date not later than end_date, 'end_date must be the same as
\* or later than start_date' when it is later, and a start_date that is no
\* date ends the run with strptime's ValueError.
C7_EndTodayNeverAuthenticates ==
    (DatesChecked /\ IsDate(end_date) /\ EndOrd = TodayOrd) =>
       /\ requests = << >>
       /\ Len(trace) = 2
       /\ (IsDate(start_date) /\ StartOrd <= EndOrd) =>
             (pc = "FAILED" /\ exit_msg = "end_date must be earlier than today")
       /\ (IsDate(start_date) /\ StartOrd > EndOrd) =>
             (pc = "FAILED" /\ exit_msg = "end_date must be the same as or later than start_date")
       /\ ~IsDate(start_date) => (pc = "CRASHED" /\ uncaught = "ValueError")

C7_Witness ==
    /\ DatesChecked
    /\ today = <<2020, 3, 1>>
    /\ end_date = "2020-3-1"
    /\ start_date = "2020-02-28"
    /\ exit_msg = "end_date must be earlier than today"

\* C8: end_date earlier than start_date exits with
\* 'end_date must be the same as or later than start_date'.
C8_EndBeforeStartExits ==
    (DatesChecked /\ IsDate(start_date) /\ IsDate(end_date) /\ EndOrd < StartOrd) =>
       /\ pc = "FAILED"
       /\ exit_msg = "end_date must be the same as or later than start_date"
       /\ requests = << >>

C8_Witness ==
    /\ DatesChecked
    /\ start_date = "2020-03-01"
    /\ end_date = "2020-02-28"
    /\ pc = "FAILED"
    /\ exit_msg = "end_date must be the same as or later than start_date"

\* C9 as stated: check_date_params lets a pair through only if end_date is not
\* earlier than start_date and strictly before the current date.
C9_AsStated ==
    (DatesChecked /\ pc = "auth") => (EndOrd >= StartOrd /\ EndOrd < TodayOrd)

IsPrefix(p, q) == Len(p) <= Len(q) /\ SubSeq(q, 1, Len(p)) = p

\* C10: in the events script the argument check comes first, then
\* check_date_params, then authentication, then pagination; no request is made
\* before date validation has passed, and none at all when it fails.
C10_ValidationBeforeRequests ==
    (script = "list_events" /\ entry = "main") =>
       /\ IsPrefix(trace, <<"args", "check_date_params", "get_expander_id_token", "get_events">>)
       /\ Len(trace) <= 2 => requests = << >>
       /\ requests # << >> => requests[1]["url"] = ID_TOKEN_URL
       /\ Len(requests) >= 2 => Len(trace) = 4
       /\ (Len(requests) >= 1 \/ pc \in {"auth", "INIT", "FETCHING", "ACCUMULATING", "DONE"}) =>
             Verdict[start_date, end_date, today] = [raises |-> None, exit |-> None]

C10_Witness ==
    /\ script = "list_events"
    /\ entry = "main"
    /\ pc = "DONE"
    /\ Len(requests) = 3
    /\ trace = <<"args", "check_date_params", "get_expander_id_token", "get_events">>


(***************************************************************************)
(* Progress lines.                                                         *)
(***************************************************************************)
\* The pages whose records have been added to the accumulator: the page in hand
\* while accumulating, or the one whose envelope raised KeyError, is not among them.
PagesAccumulated ==
    IF pc = "ACCUMULATING" \/ (pc = "CRASHED" /\ Len(served) >= 1)
    THEN Len(served) - 1 ELSE Len(served)

RECURSIVE SumLen(_, _)
\* The record counts of pages 1..k added up.
SumLen(pages, k) == IF k = 0 THEN 0 ELSE SumLen(pages, k - 1) + Len(pages[k]["data"])

TotalCountOf(s, page) == IF ReadsTotalCount(s) THEN page["meta"]["totalCount"] ELSE 0

\* Every progress line a paginator can write within the bounds, per script.
AllProgressLines ==
    [s \in ListingScripts |->
        {ProgressLine(s, n, m, t) :
            n \in 0..MaxPageLen, m \in 0..(MaxPages * MaxPageLen), t \in TotalCounts \cup {0}}]

\* A line of output that is a progress line of the script s.
IsProgressLine(s, line) == line \in AllProgressLines[s]

\* The progress lines of the output, in the order written.
ProgressLines ==
    LET Test(line) == IsProgressLine(script, line) IN SelectSeq(output, Test)

\* C11: one progress line per accumulated page; the line after page k reports
\* the record count of page k alone and, as running total, the sum of the
\* record counts of pages 1..k, which is the length of the accumulator at that
\* moment.  A two-page run of one record each with a reported total of 2 writes
\* '1 out of 2' then '2 out of 2' and no other progress line.
C11_RunningTotalIsSum ==
    (script \in ListingScripts) =>
       LET lines == ProgressLines
       IN  /\ Len(lines) = PagesAccumulated
           /\ Len(results) = SumLen(served, PagesAccumulated)
           /\ \A k \in 1..PagesAccumulated :
                 lines[k] = ProgressLine(script, Len(served[k]["data"]),
                                         SumLen(served, k), TotalCountOf(script, served[k]))
           /\ ( /\ script = "list_cloud_assets" /\ pc = "DONE" /\ Len(served) = 2
                /\ \A k \in 1..2 : Len(served[k]["data"]) = 1 /\ TotalCountOf(script, served[k]) = 2 )
              => lines =
                    << "Retrieved 1 Cloud Assets on this page, total so far: 1 out of 2",
                       "Retrieved 1 Cloud Assets on this page, total so far: 2 out of 2" >>

\* A completed two-page run of one record each whose second progress line reads
\* '2 out of 2'.
C11_Witness ==
    /\ script = "list_on_prem_assets" /\ pc = "DONE" /\ Len(served) = 2
    /\ \A k \in 1..2 : Len(served[k]["data"]) = 1
    /\ Len(ProgressLines) = 2
    /\ ProgressLines[2] = "Retrieved 1 Assets on this page, total so far: 2 out of 2"

(***************************************************************************)
(* The printing flag.                                                      *)
(***************************************************************************)
\* The line renders the records of one served page or of pages 1..k together.
IsRecordList(line) ==
    \E k \in 1..Len(served) :
        /\ \A i \in 1..k : HasKey(served[i], "data")
        /\ line = Repr(served[k]["data"]) \/ line = Repr(ConcatData(SubSeq(served, 1, k)))

\* The line renders a whole envelope that carries records.
IsEnvelopeWithRecords(line) ==
    \E k \in 1..Len(served) : HasKey(served[k], "data") /\ line = Repr(served[k])

\* The lines of the output that render lists of records, in the order written.
RecordLists ==
    LET Test(line) == IsRecordList(line) IN SelectSeq(output, Test)

\* C12 as stated: with the flag true each page's records are printed when the
\* page is received and nothing is printed again at the end; with the flag false
\* no line carrying a page's records is written before pagination has completed
\* and the combined result is printed exactly once after the last page.
C12_AsStated ==
    (script \in ListingScripts) =>
       /\ is_printing_page_results =>
             /\ Len(RecordLists) = PagesAccumulated
             /\ \A k \in 1..PagesAccumulated : RecordLists[k] = Repr(served[k]["data"])
       /\ (~is_printing_page_results /\ pc # "DONE") =>
             \A i \in 1..Len(output) :
                 ~IsRecordList(output[i]) /\ ~IsEnvelopeWithRecords(output[i])
       /\ (~is_printing_page_results /\ pc = "DONE") =>
             /\ RecordLists = << Repr(results) >>
             /\ output[Len(output) - 1] = Repr(results)

(***************************************************************************)
(* Missing command-line arguments.                                         *)
(***************************************************************************)
\* The positional arguments main reads from sys.argv.
RequiredArgs(s) == IF s = "list_events" THEN 3 ELSE 1

\* main has gone past its reading of sys.argv, with fewer arguments than it reads.
RanShortOfArgs == entry = "main" /\ pc # "main" /\ Len(argv) < RequiredArgs(script)

\* C13 as stated: each of the five scripts, run without its bearer token, ends
\* through its own sys.exit with a message and has issued no HTTP request.
C13_AsStated ==
    RanShortOfArgs =>
       /\ pc = "FAILED" /\ uncaught = None
       /\ exit_msg # None
       /\ requests = << >>

NumberWord(n) == CASE n = 1 -> "One" [] n = 2 -> "Two" [] n = 3 -> "Three" [] OTHER -> ToString(n)

\* C14 as stated: a script given k arguments where it requires n > k exits with
\* a message stating n and k ('Three args required; found k' for the events
\* script, the same sentence with n = 1 and k = 0 for the cloud-assets and
\* on-prem scripts), before date validation and before any HTTP request.
C14_AsStated ==
    (RanShortOfArgs /\ script \in {"list_events", "list_cloud_assets", "list_on_prem_assets"}) =>
       /\ pc = "FAILED"
       /\ exit_msg = NumberWord(RequiredArgs(script)) \o " args required; found "
                     \o ToString(Len(argv))
       /\ trace = <<"args">>
       /\ requests = << >>

(***************************************************************************)
(* Envelopes that lack a member.                                           *)
(***************************************************************************)
HasNext(page) == HasKey(page, "pagination") /\ HasKey(page["pagination"], "next")

HasTotalCount(page) == HasKey(page, "meta") /\ HasKey(page["meta"], "totalCount")

\* The next pointer of the envelope is null or absent.
Terminal(page) == ~HasNext(page) \/ NextOf(page) = None

\* The paginator has dealt with the envelope served last.
LastPageHandled == script \in ListingScripts /\ Len(served) >= 1 /\ pc # "ACCUMULATING"

LastPage == served[Len(served)]

PageRequests == {i \in 1..Len(requests) : requests[i]["url"] # ID_TOKEN_URL}

\* C15 as stated: an envelope whose next pointer is null or absent (and which
\* carries its records and, where the paginator reads it, its total count) ends
\* the run: its records are accumulated, no further request is issued, and the
\* paginator is DONE and returns the accumulated result.
C15_AsStated ==
    ( /\ LastPageHandled
      /\ Terminal(LastPage) /\ HasKey(LastPage, "data")
      /\ ReadsTotalCount(script) => HasTotalCount(LastPage) )
    => /\ pc = "DONE"
       /\ return_value = ConcatData(served)
       /\ Cardinality(PageRequests) = Len(served)

\* C16 as stated: an envelope without a total count (otherwise complete) has its
\* records appended by every paginator, and pagination goes on or finishes
\* without an unhandled error.
C16_AsStated ==
    ( /\ LastPageHandled
      /\ ~HasTotalCount(LastPage) /\ HasNext(LastPage) /\ HasKey(LastPage, "data") )
    => /\ uncaught = None
       /\ pc \in {"FETCHING", "DONE", "FAILED"}
       /\ results = ConcatData(served)

\* str() of the KeyError a missing member raises.
KeyErrorTexts == {"'token'", "'pagination'", "'next'", "'data'"}

\* The token endpoint has answered with a body that has neither error nor token.
AuthBodyMalformed ==
    /\ TokenRequests # {} /\ raised = None /\ served = << >> /\ pc \notin {"auth", "main"}
    /\ ~HasKey(auth_response, "error") /\ ~HasKey(auth_response, "token")

\* C17 as stated: after an authentication body with neither error nor token, or
\* a page envelope without pagination, next or data, the process has exited
\* with 'Request returned an exception: ' plus the exception text, and never
\* through an unhandled error.
C17_AsStated ==
    ( \/ AuthBodyMalformed
      \/ LastPageHandled /\ (~HasNext(LastPage) \/ ~HasKey(LastPage, "data")) )
    => /\ pc = "FAILED" /\ uncaught = None
       /\ exit_msg \in {ExceptionMessage(text) : text \in KeyErrorTexts}

(***************************************************************************)
(* The pagination loop as a state machine.                                 *)
(***************************************************************************)
LoopStates == {"INIT", "FETCHING", "ACCUMULATING"}

\* One step of a listing script, seen from the state machine
\* INIT -> FETCHING -> (ACCUMULATING -> FETCHING)* -> DONE, FAILED from FETCHING.
MachineStep ==
    (script \in ListingScripts) =>
       /\ pc = "INIT" => pc' = "FETCHING"
       /\ pc = "FETCHING" => pc' \in {"ACCUMULATING", "FAILED"}
       /\ pc = "ACCUMULATING" => pc' \in {"FETCHING", "DONE"}
       /\ pc' = "ACCUMULATING" =>
             pc = "FETCHING" /\ raised' = None /\ served' = Append(served, response')
       /\ pc' = "DONE" =>
             pc = "ACCUMULATING" /\ HasNext(response) /\ NextOf(response) = None
       /\ (pc \in LoopStates /\ pc' = "FAILED") => pc = "FETCHING"
       /\ pc \notin {"DONE", "FAILED"}

\* C18 as stated: every step of a pagination loop is an edge of the state
\* machine: ACCUMULATING only from FETCHING after a response, DONE only after
\* accumulating a page whose next pointer is null, FAILED only from FETCHING,
\* nothing out of DONE or FAILED, and no way out of the loop's states but these.
C18_AsStated == [][MachineStep]_vars

(***************************************************************************)
(* Transport failures: no retry, no partial result.                        *)
(***************************************************************************)
\* The token request was answered: it was made, and the exception of the run,
\* if any, came from a page request.
TokenAnswered == TokenRequests # {} /\ (raised = None \/ PageRequests # {})

\* The requests of the run that were answered.
SuccessfulRequests == Len(served) + (IF TokenAnswered THEN 1 ELSE 0)

\* C19: there is no retry.  The token endpoint is requested at most once and
\* there is one page request per visit of the loop (one per served page, plus
\* the one that raised); once a request has raised a transport exception the
\* run has exited, no step and so no request follows, and the requests of the
\* run number the answered ones plus one.
C19_NoRetry ==
    /\ Cardinality(TokenRequests) <= 1
    /\ Cardinality(PageRequests) \in {Len(served), Len(served) + 1}
    /\ raised = None => Len(requests) = SuccessfulRequests
    /\ raised # None =>
          /\ pc = "FAILED" /\ ~ENABLED Next
          /\ Len(requests) = SuccessfulRequests + 1

\* A run whose token request and first two page requests were answered and whose
\* third page request raised: four requests in all.
C19_Witness ==
    /\ entry = "main" /\ raised # None /\ Len(served) = 2
    /\ Len(requests) = 4 /\ pc = "FAILED"

\* Every 'Process has completed' line a paginator can write within the bounds.
AllCompletedLines ==
    [s \in ListingScripts |-> {CompletedLine(s, n) : n \in 0..(MaxPages * MaxPageLen)}]

TimesCalled(name) == Cardinality({i \in 1..Len(trace) : trace[i] = name})

\* C21: in a run of a listing script the authenticator is called at most once
\* and, once a page has been requested, exactly once: the first request of the
\* run is the only one to the token endpoint and the only one carrying the
\* bearer credential; every page request carries 'Authorization: JWT <token>'
\* with the token that one call returned.
C21_OneTokenForAllPages ==
    (entry = "main" /\ script \in ListingScripts) =>
       /\ TimesCalled("get_expander_id_token") <= 1
       /\ Cardinality(TokenRequests) = TimesCalled("get_expander_id_token")
       /\ \A i \in TokenRequests :
             /\ i = 1
             /\ requests[i]["headers"]["Authorization"] = "Bearer " \o argv[Len(argv)]
       /\ PageRequests # {} =>
             /\ TimesCalled("get_expander_id_token") = 1
             /\ HasKey(auth_response, "token") /\ id_token = auth_response["token"]
             /\ \A i \in PageRequests :
                   /\ i > 1
                   /\ requests[i]["headers"]["Authorization"] = "JWT " \o auth_response["token"]
                   /\ requests[i]["headers"]["Authorization"] # "Bearer " \o argv[Len(argv)]

\* A run of list_on_prem_assets.main that has requested three pages after its
\* one token request.
C21_Witness ==
    /\ entry = "main" /\ script = "list_on_prem_assets"
    /\ Len(requests) = 4 /\ Cardinality(PageRequests) = 3
    /\ requests[4]["headers"]["Authorization"] = "JWT jwt2"

(***************************************************************************)
(* Following the chain of next pointers.                                   *)
(***************************************************************************)
\* The page requests of the run, in the order issued.
PageRequestSeq ==
    LET Test(request) == request["url"] # ID_TOKEN_URL IN SelectSeq(requests, Test)

\* Every request of the run so far was answered, with an envelope of the shape
\* the endpoint sends: records, next pointer and, except for events, total count.
ChainServed ==
    /\ script \in ListingScripts /\ raised = None
    /\ \A k \in 1..Len(served) : WellFormed(script, served[k])

\* Request k+1 went to the next pointer of response k, the first to the endpoint.
UrlsFollowChain ==
    \A k \in 1..Len(PageRequestSeq) :
        PageRequestSeq[k]["url"] =
            (IF k = 1 THEN FirstUrl(script, start_date, end_date) ELSE NextOf(served[k - 1]))

\* While every request is answered: request k+1 goes to the next pointer of
\* response k verbatim; the loop goes on whatever the number of pages and
\* whether or not a URL comes back a second time; the paginator is DONE exactly
\* when the page with next = null has been dealt with, having issued as many
\* requests as pages were served.
ChainFollowed ==
    (ChainServed /\ Len(served) >= 1) =>
       /\ UrlsFollowChain
       /\ pc \in {"FETCHING", "ACCUMULATING", "DONE"}
       /\ pc = "FETCHING" => ENABLED FetchPage
       /\ (pc # "ACCUMULATING" /\ NextOf(LastPage) = None) =>
             pc = "DONE" /\ Len(PageRequestSeq) = Len(served)
       /\ pc = "DONE" => NextOf(LastPage) = None

\* A step is taken whenever one can be: the interpreter does not stop by itself.
FairSpec == Spec /\ WF_vars(Next)

\* C22: a paginator called on a server whose chain of next pointers ends, all
\* of whose requests are answered, eventually reaches DONE, after exactly n
\* requests for n pages, request k+1 going to the next pointer of response k
\* verbatim; nothing but the null pointer ends the loop.
C22_FollowsChainToDone ==
    /\ []ChainFollowed
    /\ (entry = "call") => <>(pc = "DONE" \/ ~ChainServed)

\* A completed run of three pages whose second and third requests went to the
\* same next URL.
C22_Witness ==
    /\ pc = "DONE" /\ ChainServed /\ Len(served) = 3 /\ Len(PageRequestSeq) = 3
    /\ PageRequestSeq[2]["url"] = NextOf(served[1])
    /\ PageRequestSeq[3]["url"] = PageRequestSeq[2]["url"]

(***************************************************************************)
(* The query parameters of a run.                                          *)
(***************************************************************************)
\* construct_api_params() as each paginator calls it, with no argument.
BuiltParams == [s \in ListingScripts |-> construct_api_params(s, NoKwargs(s))]

\* C23: the parameter mapping is built by the one call construct_api_params()
\* before the first request and is the same from then on; every page request,
\* to the endpoint or to a next URL the server supplied, was sent with it.
C23_ParamsBuiltOnce ==
    (script \in ListingScripts) =>
       LET sent == PageRequestSeq
       IN  /\ (pc \in {"FETCHING", "ACCUMULATING", "DONE"} \/ sent # << >>) =>
                 params = BuiltParams[script]
           /\ TimesCalled(Paginator(script)) <= 1
           /\ \A k \in 1..Len(sent) : sent[k]["params"] = params

\* Three page requests, the last two to the server's next URL, all with the
\* mapping built before the first.
C23_Witness ==
    /\ script = "list_events" /\ Len(PageRequestSeq) = 3
    /\ PageRequestSeq[1]["url"] = FirstUrl(script, start_date, end_date)
    /\ PageRequestSeq[3]["url"] \in NextUrls
    /\ PageRequestSeq[3]["params"] = PageRequestSeq[1]["params"]

(***************************************************************************)
(* A single-day range.                                                     *)
(***************************************************************************)
\* check_date_params has just been run by list_events.main and nothing since.
JustChecked == DatesChecked /\ Len(trace) = 2

\* C24: check_date_params accepts a range whose end_date is its start_date when
\* that day is before today: it returns, main goes on to authenticate, and the
\* call has neither exited nor raised nor written nor requested anything.
C24_SingleDayAccepted ==
    ( /\ JustChecked /\ IsDate(start_date) /\ IsDate(end_date)
      /\ EndOrd = StartOrd /\ EndOrd < TodayOrd )
    => /\ pc = "auth"
       /\ exit_msg = None /\ uncaught = None
       /\ output = << >> /\ requests = << >>
       /\ check_date_params(start_date, end_date, today) = [raises |-> None, exit |-> None]

\* The range 2020-02-29 to 2020-02-29, checked on 2020-03-01, was accepted.
C24_Witness ==
    /\ JustChecked /\ start_date = "2020-02-29" /\ end_date = "2020-02-29"
    /\ today = <<2020, 3, 1>> /\ pc = "auth"

(***************************************************************************)
(* The completed line.                                                     *)
(***************************************************************************)
\* The 'Process has completed' lines of the output, in the order written.
CompletedLines ==
    LET Test(line) == line \in AllCompletedLines[script] IN SelectSeq(output, Test)

\* C25: a paginator that has returned has written the line 'Process has
\* completed: N Total ... have been loaded' exactly once, as its last line, with
\* N the length of the sequence it returned; a paginator that has not returned
\* has not written it.  get_exposures returning two records writes
\* 'Process has completed: 2 Total Exposures have been loaded'.
C25_CompletedLineOnce ==
    (script \in ListingScripts) =>
       /\ pc # "DONE" => CompletedLines = << >>
       /\ pc = "DONE" =>
             /\ CompletedLines = << CompletedLine(script, Len(return_value)) >>
             /\ output[Len(output)] = CompletedLine(script, Len(return_value))
             /\ PagesAccumulated = Len(served) /\ NextOf(LastPage) = None
             /\ (script = "list_exposures" /\ Len(return_value) = 2) =>
                   output[Len(output)] =
                      "Process has completed: 2 Total Exposures have been loaded"

\* get_exposures has returned the two records of two pages and its last line
\* counts two.
C25_Witness ==
    /\ script = "list_exposures" /\ pc = "DONE" /\ Len(served) = 2
    /\ Len(return_value) = 2
    /\ output[Len(output)] = "Process has completed: 2 Total Exposures have been loaded"

(***************************************************************************)
(* Falsy values in the query builder.                                      *)
(***************************************************************************)
\* The supplied values Python takes for false in a condition.
FalsyValues == {"False", "0", "''"}

\* C26: the four construct_api_params leave a field out only when its value is
\* None: a field supplied as False, 0 or '' is in the mapping under its
\* server-side key with that value; cloud=False gives 'cloud': False.
C26_FalsyValuesKept ==
    pc = "constructed" =>
       /\ \A f \in Fields(script) :
             /\ kwargs[f] \in FalsyValues =>
                   HasKey(built, KeyOf(script, f)) /\ built[KeyOf(script, f)] = kwargs[f]
             /\ ~HasKey(built, KeyOf(script, f)) => kwargs[f] = None
       /\ (script = "list_exposures" /\ kwargs["cloud"] = "False") =>
             HasKey(built, "cloud") /\ built["cloud"] = "False"

\* construct_api_params(cloud=False) of list_exposures has returned {'cloud': False}.
C26_Witness ==
    /\ pc = "constructed" /\ script = "list_exposures"
    /\ Supplied(script, kwargs) = {"cloud"} /\ kwargs["cloud"] = "False"
    /\ built = [x \in {"cloud"} |-> "False"]

(***************************************************************************)
(* The 'Loading next page...' line.                                        *)
(***************************************************************************)
\* Where in the output the progress line of page k stands.
ProgressIndex(k) ==
    CHOOSE i \in 1..Len(output) :
        /\ IsProgressLine(script, output[i])
        /\ Cardinality({j \in 1..i : IsProgressLine(script, output[j])}) = k

\* 'Loading next page...' was written right after the progress line of page k.
LoadingAfter(k) ==
    /\ ProgressIndex(k) < Len(output)
    /\ output[ProgressIndex(k) + 1] = LOADING_NEXT_LINE

\* After page k one more page request has been issued, or is about to be: the
\* loop is at its requests.get with page k the last one accumulated.
RequestFollows(k) ==
    \/ Len(PageRequestSeq) > k
    \/ pc = "FETCHING" /\ k = PagesAccumulated

\* C27 as stated: whatever the next pointer of a page is (a URL, null, the empty
\* string), 'Loading next page...' is written after that page exactly when one
\* more page request follows it, and nowhere else.
C27_AsStated ==
    (script \in ListingScripts) =>
       /\ \A k \in 1..PagesAccumulated : LoadingAfter(k) <=> RequestFollows(k)
       /\ Cardinality({i \in 1..Len(output) : output[i] = LOADING_NEXT_LINE})
             = Cardinality({k \in 1..PagesAccumulated : RequestFollows(k)})

(***************************************************************************)
(* An authentication response with both error and token.                   *)
(***************************************************************************)
\* C28: when the authentication response carries both an error and a token the
\* error wins: the run has exited with 'API returned an error: ' plus the error
\* text, 'Successfully Authenticated' was not written, no token was returned
\* or used, and the exit was not caught and turned into the 'Request returned
\* an exception: ' exit.
C28_ErrorBeforeToken ==
    (HasKey(auth_response, "error") /\ HasKey(auth_response, "token")) =>
       /\ pc = "FAILED" /\ uncaught = None /\ raised = None
       /\ exit_msg = "API returned an error: " \o auth_response["error"]
       /\ \A text \in ExceptionTexts \cup {auth_response["error"]} :
             exit_msg # "Request returned an exception: " \o text
       /\ \A i \in 1..Len(output) : output[i] # "Successfully Authenticated"
       /\ output = << "Calling /api/v1/idtoken endpoint..." >>
       /\ id_token = None
       /\ PageRequests = {}

\* list_events.main was answered {'error': ..., 'token': 'jwt1'} and has exited
\* with the error.
C28_Witness ==
    /\ script = "list_events" /\ pc = "FAILED"
    /\ HasKey(auth_response, "error") /\ HasKey(auth_response, "token")
    /\ auth_response["token"] = "jwt1"
    /\ exit_msg = "API returned an error: Could not get an id token"

(***************************************************************************)
(* The four loops side by side.                                            *)
(***************************************************************************)
\* The paginator has ended, by returning or by the exit of a failed page request.
LoopEnded ==
    /\ script \in ListingScripts /\ PageRequestSeq # << >>
    /\ pc \in {"DONE", "FAILED"}

\* The lines of the output that carry records of a page, alone, combined or
\* inside the envelope, in the order written.
RecordOutput ==
    LET Test(line) == IsRecordList(line) \/ IsEnvelopeWithRecords(line)
    IN  SelectSeq(output, Test)

\* What a loop fed the envelopes pages, failing at the next request iff failed,
\* does, written without reference to which of the four loops it is.
LoopReference(pages, failed, flag) ==
    [requests |-> Len(pages) + (IF failed THEN 1 ELSE 0),
     state |-> IF failed THEN "FAILED" ELSE "DONE",
     returned |-> IF failed THEN None ELSE ConcatData(pages),
     records |-> IF flag THEN [k \in 1..Len(pages) |-> Repr(pages[k]["data"])]
                 ELSE IF failed THEN << >> ELSE << Repr(ConcatData(pages)) >>]

\* What the loop that ran did.
LoopObserved ==
    [requests |-> Len(PageRequestSeq),
     state |-> pc,
     returned |-> IF pc = "DONE" THEN return_value ELSE None,
     records |-> RecordOutput]

\* C29 as stated: fed the same envelopes (each with data, pagination.next and
\* the total count where the loop reads it) and the same failure point, with
\* the same value of the flag, each of the four loops issues the same number of
\* requests, ends in the same state, returns the same sequence and writes the
\* same page records to output; that is, what each does is one function of the
\* envelopes, the failure point and the flag.
C29_AsStated ==
    (LoopEnded /\ \A k \in 1..Len(served) : WellFormed(script, served[k])) =>
       LoopObserved = LoopReference(served, raised # None, is_printing_page_results)

====
